---- MODULE Spec2Model ----
(***************************************************************************)
(* FastLoop: a template renderer that turns a data array into DOM nodes     *)
(* under a container, in batches driven by requestAnimationFrame, with      *)
(* optional reuse of the container's existing child nodes.                  *)
(*                                                                          *)
(* Two surfaces share the rendering core: the class FastLoop                *)
(* (src/javascript-fastloop.js) and the jQuery plugin $.fn.loopHtml         *)
(* (src/unnamed/part_000).                                                  *)
(*                                                                          *)
(* Strings are modelled as sequences of tokens (a tag, a placeholder, a     *)
(* blank, a piece of text); concatenation is \o and '' is << >>.  A DOM     *)
(* node is an identity (its index in `nodes`) with a root tag and the       *)
(* tokens of its innerHTML.                                                 *)
(***************************************************************************)
EXTENDS Integers, Sequences, FiniteSets, TLC

VARIABLES
    settings,         \* this.settings: the merged options
    thisContainer,    \* this.container: "unset", "element" or "null"
    container,        \* the children of the mount element, in order (node ids)
    nodes,            \* every node created so far: id -> [tag, inner, by]
    templateHtml,     \* this.templateHtml
    compiledTemplate, \* this.compiledTemplate
    existingNodes,    \* this.existingNodes
    eventListeners,   \* this.eventListeners
    rafQueue,         \* requestAnimationFrame callbacks not yet run, oldest first
    instance,         \* "none" before construction, then "live", "failed", "destroyed"
    calls,            \* number of API calls made after construction
    last,             \* what the last step was and how it ended
    sIn,              \* inputs of the placeholder substitution under test
    sOut,             \* its result
    history,          \* the on, off, emit and destroy calls made, in order
    emitted,          \* the handlers the last emit invoked, in order
    frame             \* parity of the animation frames the host has granted

vars == <<settings, thisContainer, container, nodes, templateHtml, compiledTemplate,
          existingNodes, eventListeners, rafQueue, instance, calls, last, sIn, sOut,
          history, emitted, frame>>

renderVars == <<settings, thisContainer, container, nodes, templateHtml, compiledTemplate,
                existingNodes, eventListeners, rafQueue, instance, calls, last,
                history, emitted, frame>>

----------------------------------------------------------------------------
(* Bounds of the model. *)

\* longest data array
MaxLen == 3

\* API calls after construction
MaxCalls == 2

\* on, off and emit calls
MaxEvents == 3

\* updateData and render calls that a destroyed instance of the class answers
\* by returning at the template guard, beyond MaxCalls
MaxLater == 2

\* largest 0-based position tried on the substituter alone
MaxIndex == 2

----------------------------------------------------------------------------
(* Values, items and data. *)

\* A JavaScript value: its type and its string form String(v).
Val(t, s) == [t |-> t, s |-> s]
Undefined == Val("undefined", "undefined")
JsNull == Val("null", "null")
Str(s) == Val("string", s)
Num(s) == Val("number", s)
Bool(s) == Val("boolean", s)

\* v == null || v === undefined, the test of ??
Nullish(v) == v.t \in {"undefined", "null"}

\* !v, the test of ||
Falsy(v) ==
    \/ Nullish(v)
    \/ v = Str("")
    \/ v = Num("0")
    \/ v = Bool("false")

\* An item: an object with the keys below (Undefined: the key is absent), or
\* the value null, on which every property access throws.
Keys == {"name", "index"}
Obj(n, x) == [isNull |-> FALSE, name |-> n, index |-> x]
NullItem == [isNull |-> TRUE, name |-> Undefined, index |-> Undefined]

\* item[key]
Get(item, key) ==
    CASE key = "name" -> item.name
      [] key = "index" -> item.index
      [] OTHER -> Undefined

ItemA == Obj(Str("a"), Undefined)
ItemB == Obj(Str("b"), Undefined)

\* The items the substituter alone is tried on.
SubstItems ==
    { Obj(n, x) : n \in {Str("a"), Str(""), Num("0"), Bool("false"), JsNull, Undefined},
                  x \in {Undefined, Num("7")} }
      \cup {NullItem}

\* The items of the data arrays of the rendering model.
Items == {ItemA, ItemB}

----------------------------------------------------------------------------
(* Strings as token sequences. *)

\* null where a string is expected (templateHtml after destroy()).
NULL == <<"#null">>

\* !s for a string-or-null s
Empty(s) == s = NULL \/ s = << >>

Placeholders == {"{{name}}", "{{index}}", "{{content}}"}

\* The name captured by /{{(\w+)}}/ in a placeholder token.
KeyOf(tok) ==
    CASE tok = "{{name}}" -> "name"
      [] tok = "{{index}}" -> "index"
      [] tok = "{{content}}" -> "content"

OpenTags == {"<div>", "<li>", "<span>"}
CloseTags == {"</div>", "</li>", "</span>"}

CloseOf(tag) ==
    CASE tag = "<div>" -> "</div>"
      [] tag = "<li>" -> "</li>"
      [] tag = "<span>" -> "</span>"

\* String(v) as tokens: the empty string has none.
Text(v) == IF v.s = "" THEN << >> ELSE <<v.s>>

RECURSIVE Concat(_)
\* The concatenation of a sequence of strings.
Concat(ss) == IF ss = << >> THEN << >> ELSE Head(ss) \o Concat(Tail(ss))

\* String.prototype.trim: blanks removed at both ends.
RECURSIVE TrimLeft(_)
TrimLeft(s) == IF s # << >> /\ Head(s) = " " THEN TrimLeft(Tail(s)) ELSE s

RECURSIVE TrimRight(_)
TrimRight(s) ==
    IF s # << >> /\ s[Len(s)] = " " THEN TrimRight(SubSeq(s, 1, Len(s) - 1)) ELSE s

Trim(s) == TrimRight(TrimLeft(s))

----------------------------------------------------------------------------
(* The default substituter: compiledTemplate.replace(/{{(\w+)}}/g, ...). *)

\* ReplaceMatch with the item looked up before the reserved name index is
\* tested: an item's own key index wins.
ReplaceMatchItemFirst(surface, key, item, i) ==
    IF ~item.isNull /\ ~Nullish(Get(item, key)) THEN Text(Get(item, key))
    ELSE IF key = "index" THEN <<ToString(i + 1)>>
    ELSE << >>

\* The replacement the callback of replace() returns for one match, at 0-based
\* position i.  FastLoop: item[key] ?? '';  loopHtml: item[key] || ''.
ReplaceMatch(surface, key, item, i) ==
    IF key = "index" THEN <<ToString(i + 1)>>
    ELSE IF surface = "FastLoop"
         THEN (IF Nullish(Get(item, key)) THEN << >> ELSE Text(Get(item, key)))
         ELSE (IF Falsy(Get(item, key)) THEN << >> ELSE Text(Get(item, key)))

\* item[key] on a null item throws a TypeError; {{index}} never reads the item.
MatchThrows(tok, item) ==
    tok \in Placeholders /\ KeyOf(tok) # "index" /\ item.isNull

\* The result of the default substitution: threw, or the markup.
Replace(surface, tpl, item, i) ==
    IF tpl = NULL \/ \E k \in 1..Len(tpl) : MatchThrows(tpl[k], item)
    THEN [threw |-> TRUE, html |-> << >>]
    ELSE [threw |-> FALSE,
          html |-> Concat([k \in 1..Len(tpl) |->
                      IF tpl[k] \in Placeholders
                      THEN ReplaceMatch(surface, KeyOf(tpl[k]), item, i)
                      ELSE <<tpl[k]>>])]

----------------------------------------------------------------------------
(* A caller-supplied renderCallback, the one of the README:                 *)
(*   (template, item, index) => template.replace('{{content}}',             *)
(*       `${item.name.toUpperCase()} - ${item.value * 2}`)                  *)
(* The items of the model have no key value: item.value * 2 is NaN.         *)

\* s.toUpperCase()
Upper(s) ==
    CASE s = "a" -> "A"
      [] s = "b" -> "B"
      [] OTHER -> s

RECURSIVE IndexOf(_, _, _)
\* The first position >= k of tok in s, 0 when there is none.
IndexOf(s, tok, k) ==
    IF k > Len(s) THEN 0
    ELSE IF s[k] = tok THEN k
    ELSE IndexOf(s, tok, k + 1)

\* s.replace(tok, by) with a string pattern: the first occurrence only.
ReplaceFirst(s, tok, by) ==
    LET k == IndexOf(s, tok, 1)
    IN IF k = 0 THEN s
       ELSE SubSeq(s, 1, k - 1) \o by \o SubSeq(s, k + 1, Len(s))

ReadmeCallback(template, item, i) ==
    IF template = NULL \/ item.isNull \/ item.name.t # "string"
    THEN [threw |-> TRUE, html |-> << >>]
    ELSE [threw |-> FALSE,
          html |-> ReplaceFirst(template, "{{content}}",
                       (IF item.name.s = "" THEN << >> ELSE <<Upper(item.name.s)>>)
                           \o <<" - ", "NaN">>)]

\* A caller-supplied renderCallback that builds the markup from the item
\* alone and never reads its template argument:
\*   (template, item, index) => '<div>' + item.name + '</div>'
ItemOnlyCallback(template, item, i) ==
    IF item.isNull THEN [threw |-> TRUE, html |-> << >>]
    ELSE [threw |-> FALSE, html |-> <<"<div>">> \o Text(item.name) \o <<"</div>">>]

\* this.settings.renderCallback(this.templateHtml, item, i) (line 97).
RenderCallback(name, template, item, i) ==
    IF name = "itemOnly" THEN ItemOnlyCallback(template, item, i)
    ELSE ReadmeCallback(template, item, i)

----------------------------------------------------------------------------
(* Parsing markup into an element: temp.innerHTML = html; temp.firstElementChild. *)

RECURSIVE MatchingClose(_, _, _)
\* The position of the end tag that closes the element opened before position
\* k, `depth` elements being open; Len(s) + 1 when the markup ends first (the
\* parser then closes the element at the end).
MatchingClose(s, k, depth) ==
    IF k > Len(s) THEN k
    ELSE IF s[k] \in OpenTags THEN MatchingClose(s, k + 1, depth + 1)
    ELSE IF s[k] \in CloseTags
         THEN (IF depth = 1 THEN k ELSE MatchingClose(s, k + 1, depth - 1))
    ELSE MatchingClose(s, k + 1, depth)

RECURSIVE FirstOpen(_, _)
\* The position of the first start tag of s at or after k, 0 when there is none.
FirstOpen(s, k) ==
    IF k > Len(s) THEN 0
    ELSE IF s[k] \in OpenTags THEN k
    ELSE FirstOpen(s, k + 1)

\* firstElementChild of a div whose innerHTML is s: none, or the element's
\* start tag and the markup inside it.
FirstElementChild(s) ==
    LET j == FirstOpen(s, 1)
    IN IF j = 0 THEN [none |-> TRUE, tag |-> "", inner |-> << >>]
       ELSE [none |-> FALSE, tag |-> s[j],
             inner |-> SubSeq(s, j + 1, MatchingClose(s, j + 1, 1) - 1)]

----------------------------------------------------------------------------
(* Data: what is passed as `data`.  An array of items, or a non-sequence:   *)
(* a plain object {} (its length is undefined) or null.                     *)

ArrayOf(items) == [kind |-> "array", items |-> items]
PlainObject == [kind |-> "object", items |-> << >>]
NullData == [kind |-> "null", items |-> << >>]

\* Array.isArray(data)
IsArray(data) == data.kind = "array"

----------------------------------------------------------------------------
(* The DOM and the render in progress, as one record the steps of render()  *)
(* transform:                                                               *)
(*   thisContainer    this.container                                        *)
(*   templateHtml     this.templateHtml                                     *)
(*   container        the children of the mount element                     *)
(*   nodes            the elements created so far                           *)
(*   queue            the scheduled requestAnimationFrame callbacks         *)
(*   existingNodes    this.existingNodes                                    *)
(*   compiledTemplate this.compiledTemplate                                 *)
(*   frag             the children of the running render's fragment         *)
(*   threw            an exception is propagating                           *)
(*   committed        the fragment was swapped into the container           *)
(*   log              the positions the loop body ran for, in this step     *)

World ==
    [thisContainer |-> thisContainer, templateHtml |-> templateHtml,
     container |-> container, nodes |-> nodes, queue |-> rafQueue,
     existingNodes |-> existingNodes, compiledTemplate |-> compiledTemplate,
     frag |-> << >>, threw |-> FALSE, committed |-> FALSE, log |-> << >>]

Without(seq, id) == SelectSeq(seq, LAMBDA x : x # id)

\* A node leaves its parent, wherever it is: the container, the running
\* render's fragment or the fragment of a scheduled render.
Detach(w, id) ==
    [w EXCEPT !.container = Without(@, id),
              !.frag = Without(@, id),
              !.queue = [k \in 1..Len(@) |->
                            [@[k] EXCEPT !.fragment = Without(@, id)]]]

\* fragment.appendChild(element): the element moves to the end of the fragment.
AppendChild(w, id) ==
    LET d == Detach(w, id) IN [d EXCEPT !.frag = Append(@, id)]

RECURSIVE RemoveAll(_, _)
\* nodes.forEach(node => node.remove())
RemoveAll(w, ids) ==
    IF ids = << >> THEN w ELSE RemoveAll(Detach(w, Head(ids)), Tail(ids))

\* The markup for item i: the renderCallback's, or the default substituter's
\* on the cached template (lines 96-109).  [threw, html, compiled].
ItemHtml(w, item, i) ==
    IF settings.renderCallback # "none"
    THEN LET r == RenderCallback(settings.renderCallback, w.templateHtml, item, i)
         IN [threw |-> r.threw, html |-> r.html, compiled |-> w.compiledTemplate]
    ELSE LET ct == IF Empty(w.compiledTemplate) THEN w.templateHtml
                   ELSE w.compiledTemplate
             r == Replace(settings.surface, ct, item, i)
         IN [threw |-> r.threw, html |-> r.html, compiled |-> ct]

\* ProcessItem with the node to reuse looked up one position too far,
\* existingNodes[i + 1].
ProcessItemOffByOne(w, sess, i) ==
    LET h == ItemHtml(w, sess.data.items[i + 1], i)
        w1 == [w EXCEPT !.compiledTemplate = h.compiled, !.log = Append(@, i)]
        html == Trim(h.html)
    IN IF h.threw THEN [w1 EXCEPT !.threw = TRUE]
       ELSE IF settings.reuseNodes /\ i + 2 <= Len(w1.existingNodes)
       THEN LET el == w1.existingNodes[i + 2]
            IN AppendChild([w1 EXCEPT !.nodes[el].inner = html], el)
       ELSE LET fe == FirstElementChild(html)
                id == Len(w1.nodes) + 1
            IN IF fe.none THEN [w1 EXCEPT !.threw = TRUE]
               ELSE AppendChild(
                        [w1 EXCEPT !.nodes = Append(@,
                            [tag |-> fe.tag, inner |-> fe.inner, by |-> sess.id])],
                        id)

\* ProcessItem with the node to reuse looked up by the position within the
\* batch, existingNodes[i - startIndex].
ProcessItemBatchLocal(w, sess, i) ==
    LET h == ItemHtml(w, sess.data.items[i + 1], i)
        w1 == [w EXCEPT !.compiledTemplate = h.compiled, !.log = Append(@, i)]
        html == Trim(h.html)
        j == i - sess.start
    IN IF h.threw THEN [w1 EXCEPT !.threw = TRUE]
       ELSE IF settings.reuseNodes /\ j + 1 <= Len(w1.existingNodes)
       THEN LET el == w1.existingNodes[j + 1]
            IN AppendChild([w1 EXCEPT !.nodes[el].inner = html], el)
       ELSE LET fe == FirstElementChild(html)
                id == Len(w1.nodes) + 1
            IN IF fe.none THEN [w1 EXCEPT !.threw = TRUE]
               ELSE AppendChild(
                        [w1 EXCEPT !.nodes = Append(@,
                            [tag |-> fe.tag, inner |-> fe.inner, by |-> sess.id])],
                        id)

\* One pass of the loop body of processBatch for the 0-based position i
\* (lines 92-123) of the render `sess`.
ProcessItem(w, sess, i) ==
    LET h == ItemHtml(w, sess.data.items[i + 1], i)
        w1 == [w EXCEPT !.compiledTemplate = h.compiled, !.log = Append(@, i)]
        html == Trim(h.html)
    IN IF h.threw THEN [w1 EXCEPT !.threw = TRUE]
       ELSE IF settings.reuseNodes /\ i + 1 <= Len(w1.existingNodes)
       THEN \* reuse: element.innerHTML = html.trim()
            LET el == w1.existingNodes[i + 1]
            IN AppendChild([w1 EXCEPT !.nodes[el].inner = html], el)
       ELSE \* create: temp.firstElementChild, null when html has no element
            LET fe == FirstElementChild(html)
                id == Len(w1.nodes) + 1
            IN IF fe.none THEN [w1 EXCEPT !.threw = TRUE]
               ELSE AppendChild(
                        [w1 EXCEPT !.nodes = Append(@,
                            [tag |-> fe.tag, inner |-> fe.inner, by |-> sess.id])],
                        id)

RECURSIVE ProcessItems(_, _, _, _)
\* for (let i = startIndex; i < endIndex; i++), left at the first exception
ProcessItems(w, sess, i, endIndex) ==
    IF i >= endIndex \/ w.threw THEN w
    ELSE ProcessItems(ProcessItem(w, sess, i), sess, i + 1, endIndex)

Min(a, b) == IF a < b THEN a ELSE b

\* The nodes this.existingNodes.slice(data.length) yields; slice(undefined)
\* is the whole array.
Leftover(existing, data) ==
    IF IsArray(data) THEN SubSeq(existing, Len(data.items) + 1, Len(existing))
    ELSE existing

\* Commit without the clearing of the container (line 134): the fragment is
\* appended after the children that are left.
CommitWithoutClear(w, sess) ==
    LET w1 == IF settings.reuseNodes
              THEN RemoveAll(w, Leftover(w.existingNodes, sess.data))
              ELSE w
    IN IF w.thisContainer = "null" THEN [w1 EXCEPT !.threw = TRUE]
       ELSE [w1 EXCEPT !.container = w1.container \o w1.frag, !.frag = << >>,
                       !.committed = TRUE]

\* The else branch of lines 129-136: the unused nodes are removed, the
\* container is cleared and the fragment appended.  A null this.container
\* throws at line 134, after the removal.
Commit(w, sess) ==
    LET w1 == IF settings.reuseNodes
              THEN RemoveAll(w, Leftover(w.existingNodes, sess.data))
              ELSE w
    IN IF w.thisContainer = "null" THEN [w1 EXCEPT !.threw = TRUE]
       ELSE [w1 EXCEPT !.container = w1.frag, !.frag = << >>, !.committed = TRUE]

\* processBatch that schedules the next batch one position too far,
\* processBatch(endIndex + 1).
ProcessBatchSkipsOne(w, sess, startIndex) ==
    IF sess.data.kind = "null" THEN [w EXCEPT !.threw = TRUE]
    ELSE IF sess.data.kind = "object" THEN Commit(w, sess)
    ELSE LET endIndex == Min(startIndex + sess.batchSize, Len(sess.data.items))
             w1 == ProcessItems(w, sess, startIndex, endIndex)
         IN IF w1.threw THEN w1
            ELSE IF endIndex < Len(sess.data.items)
            THEN [w1 EXCEPT !.queue = Append(@,
                     [sess EXCEPT !.start = endIndex + 1, !.fragment = w1.frag,
                                  !.processed = @ \o w1.log]),
                            !.frag = << >>]
            ELSE Commit(w1, sess)

\* processBatch that requests no animation frame when data remains.
ProcessBatchForgets(w, sess, startIndex) ==
    IF sess.data.kind = "null" THEN [w EXCEPT !.threw = TRUE]
    ELSE IF sess.data.kind = "object" THEN Commit(w, sess)
    ELSE LET endIndex == Min(startIndex + sess.batchSize, Len(sess.data.items))
             w1 == ProcessItems(w, sess, startIndex, endIndex)
         IN IF w1.threw THEN w1
            ELSE IF endIndex < Len(sess.data.items)
            THEN [w1 EXCEPT !.frag = << >>]
            ELSE Commit(w1, sess)

\* processBatch that shows the fragment built so far in the container after
\* every batch.
ProcessBatchShowsProgress(w, sess, startIndex) ==
    IF sess.data.kind = "null" THEN [w EXCEPT !.threw = TRUE]
    ELSE IF sess.data.kind = "object" THEN Commit(w, sess)
    ELSE LET endIndex == Min(startIndex + sess.batchSize, Len(sess.data.items))
             w1 == ProcessItems(w, sess, startIndex, endIndex)
         IN IF w1.threw THEN w1
            ELSE IF endIndex < Len(sess.data.items)
            THEN [w1 EXCEPT !.queue = Append(@,
                     [sess EXCEPT !.start = endIndex, !.fragment = w1.frag,
                                  !.processed = @ \o w1.log]),
                            !.container = w1.frag,
                            !.frag = << >>]
            ELSE Commit(w1, sess)

\* processBatch whose batch is all the data that remains.
ProcessBatchWholeRest(w, sess, startIndex) ==
    IF sess.data.kind = "null" THEN [w EXCEPT !.threw = TRUE]
    ELSE IF sess.data.kind = "object" THEN Commit(w, sess)
    ELSE LET endIndex == Len(sess.data.items)
             w1 == ProcessItems(w, sess, startIndex, endIndex)
         IN IF w1.threw THEN w1 ELSE Commit(w1, sess)

\* processBatch(startIndex) of the render `sess` (lines 88-137).  Reading
\* data.length of null throws; of a plain object it is undefined, endIndex is
\* NaN, the loop body never runs and endIndex < data.length is false.
ProcessBatch(w, sess, startIndex) ==
    IF sess.data.kind = "null" THEN [w EXCEPT !.threw = TRUE]
    ELSE IF sess.data.kind = "object" THEN Commit(w, sess)
    ELSE LET endIndex == Min(startIndex + sess.batchSize, Len(sess.data.items))
             w1 == ProcessItems(w, sess, startIndex, endIndex)
         IN IF w1.threw THEN w1
            ELSE IF endIndex < Len(sess.data.items)
            THEN [w1 EXCEPT !.queue = Append(@,
                     [sess EXCEPT !.start = endIndex, !.fragment = w1.frag,
                                  !.processed = @ \o w1.log]),
                            !.frag = << >>]
            ELSE Commit(w1, sess)

\* render that takes the snapshot of the children only when the cache of
\* existing nodes is empty.
RenderCallKeepsSnapshot(w, sess) ==
    IF Empty(w.templateHtml) THEN w
    ELSE IF settings.reuseNodes /\ w.thisContainer = "null"
    THEN [w EXCEPT !.threw = TRUE]
    ELSE ProcessBatch(
             [w EXCEPT !.existingNodes =
                 IF settings.reuseNodes /\ @ = << >> THEN w.container ELSE @],
             sess, 0)

\* render(data) up to its return (lines 71-145): the snapshot and the first
\* batch, inside the try.  Nothing happens without a template.
RenderCall(w, sess) ==
    IF Empty(w.templateHtml) THEN w
    ELSE IF settings.reuseNodes /\ w.thisContainer = "null"
    THEN [w EXCEPT !.threw = TRUE]
    ELSE ProcessBatch(
             [w EXCEPT !.existingNodes =
                 IF settings.reuseNodes THEN w.container ELSE @],
             sess, 0)

----------------------------------------------------------------------------
(* Options. *)

DefaultBatchSize == 1000

Surfaces == {"FastLoop", "loopHtml"}

\* '<div>{{name}}</div>', the README's basic template
TplItem == <<"<div>", "{{name}}", "</div>">>
\* the innerHTML of a template element, with blanks around the markup
TplRow == <<" ", "<li>", "{{index}}", ":", "{{name}}", "</li>", " ">>
\* '<div>{{content}}</div>', the template of the README's renderCallback
TplCard == <<"<div>", "{{content}}", "</div>">>
\* '{{name}}': markup without an element
TplText == <<"{{name}}">>

StringTemplate(html) == [kind |-> "string", html |-> html]
ElementTemplate(html) == [kind |-> "element", html |-> html]
\* neither a string nor an HTMLElement (the README passes a jQuery object)
OtherTemplate == [kind |-> "other", html |-> << >>]

\* template and renderCallback
Renderers ==
    { [template |-> ElementTemplate(TplRow), renderCallback |-> "none"],
      [template |-> StringTemplate(TplText), renderCallback |-> "none"],
      [template |-> StringTemplate(TplCard), renderCallback |-> "readme"] }

\* a renderCallback that never reads the template it is handed
ItemOnly == [template |-> StringTemplate(TplCard), renderCallback |-> "itemOnly"]

BatchSizes == {1, 2}

Options(surface, c, r, validate, b, reuse, data) ==
    [surface |-> surface, container |-> c, template |-> r.template,
     renderCallback |-> r.renderCallback, validateData |-> validate,
     batchSize |-> b, reuseNodes |-> reuse, data |-> data]

\* The array of n items that starts with `first` and alternates between the
\* two items.
Alternating(first, n) ==
    [k \in 1..n |-> IF k % 2 = 1 THEN first
                    ELSE CHOOSE other \in Items : other # first]

\* The arrays of at most MaxLen items.
Arrays == { ArrayOf(Alternating(first, n)) : first \in Items, n \in 0..MaxLen }

\* What updateData may be handed: an array of items, an array whose second
\* item is null, or a non-sequence.
DataValues == Arrays \cup {ArrayOf(<<ItemA, NullItem>>), PlainObject, NullData}

\* The data option at construction: the README's two items or a non-sequence.
InitialData == {ArrayOf(<<ItemA, ItemB>>), PlainObject}

\* What the container option is: an element, a selector that matches one, a
\* selector that matches nothing, or (for the class, which tests it) a value
\* that is neither a string nor an element.  The plugin is called on a jQuery
\* selection, of one element or of none.
Containers(s) ==
    IF s = "FastLoop" THEN {"element", "selector", "unresolved", "other"}
    ELSE {"element", "selector", "unresolved"}

\* The configurations of one surface the model starts from: every renderer,
\* batch size and reuse setting on a valid container and data under
\* validation, then the defaults (batchSize 1000, reuseNodes true) with the
\* default (empty) template, an invalid template or the README's, each kind of
\* container, validation on and off, and the default data [] or a
\* non-sequence; for the class also a renderCallback that ignores the
\* template, in batches of one item.
Configurations(s) ==
    { Options(s, "element", r, TRUE, b, reuse, d) :
          r \in Renderers, b \in BatchSizes,
          reuse \in BOOLEAN, d \in InitialData }
    \cup
    (IF s = "FastLoop"
     THEN { Options(s, "element", ItemOnly, TRUE, 1, reuse,
                    ArrayOf(<<ItemA, ItemB>>)) : reuse \in BOOLEAN }
     ELSE { })
    \cup
    { Options(s, c, [template |-> t, renderCallback |-> "none"], v,
              DefaultBatchSize, TRUE, d) :
          c \in Containers(s),
          t \in {StringTemplate(<< >>), OtherTemplate, StringTemplate(TplItem)},
          v \in BOOLEAN, d \in {ArrayOf(<< >>), PlainObject} }

----------------------------------------------------------------------------
(* The state machine. *)

\* A render session: what the closure of one render(data) call holds (data,
\* batchSize, fragment, the index the next batch starts at), its number, and
\* for the properties below
\*   origin   the container's children when render was called
\*   solo     no render was scheduled then and no API call was made since
\*   oneTick  what the same call ends in when one batch holds all the data
\*   again    the call repeats the updateData(D) made just before, which
\*            started with no render scheduled; single is that call's oneTick
\*   recovers the call is an updateData that follows a render call which an
\*            error aborted
\*   processed the positions the loop body ran for in the batches so far
NoResult == [ok |-> FALSE, children |-> << >>, markup |-> << >>]

NoSession ==
    [id |-> -1, data |-> ArrayOf(<< >>), batchSize |-> 0, start |-> 0,
     fragment |-> << >>, origin |-> << >>, solo |-> FALSE,
     oneTick |-> NoResult, again |-> [is |-> FALSE, single |-> NoResult],
     recovers |-> FALSE, processed |-> << >>]

\* The children c as markup: each one's root tag and innerHTML.
MarkupOf(ns, c) ==
    [k \in 1..Len(c) |-> [tag |-> ns[c[k]].tag, inner |-> ns[c[k]].inner]]

Markup == MarkupOf(nodes, container)

\* How a step ended.  reinit: init() was called on the instance since the
\* last destroy(); later: the number of updateData and render calls since
\* then; inflight: a render had batches scheduled when destroy() was called.
Outcome(op, escaped, reported, w, sess) ==
    [op |-> op, escaped |-> escaped, reported |-> reported,
     committed |-> w.committed, sess |-> sess, log |-> w.log,
     reinit |-> IF op = "init" THEN TRUE
                ELSE IF op \in {"none", "destroy"} THEN FALSE
                ELSE last.reinit,
     later |-> IF op \in {"none", "destroy"} \/ instance # "destroyed" THEN 0
               ELSE IF op \in {"updateData", "render"} THEN last.later + 1
               ELSE last.later,
     inflight |-> IF op = "none" THEN FALSE
                  ELSE IF op = "destroy" THEN rafQueue # << >>
                  ELSE last.inflight,
     before |-> [children |-> container, markup |-> Markup]]

\* A call of the API ends every scheduled render's run without interference.
Interfered(queue) == [k \in 1..Len(queue) |-> [queue[k] EXCEPT !.solo = FALSE]]

\* What the same render from the same state ends in when a single batch
\* holds all the data (batchSize >= data.length).
Result(r) ==
    [ok |-> ~r.threw /\ r.committed, children |-> r.container,
     markup |-> MarkupOf(r.nodes, r.container)]

OneTick(w, sess) ==
    Result(RenderCall(w, [sess EXCEPT !.batchSize = Len(sess.data.items) + 1]))

\* The render session a call of render(data) starts.
NewSession(w, op, id, data) ==
    [id |-> id, data |-> data, batchSize |-> settings.batchSize,
     start |-> 0, fragment |-> << >>, origin |-> w.container,
     solo |-> w.queue = << >>,
     oneTick |-> OneTick(w, [NoSession EXCEPT !.id = id, !.data = data]),
     again |-> IF op = "updateData" /\ last.op = "updateData"
                  /\ last.sess.data = data /\ last.sess.solo
               THEN [is |-> TRUE, single |-> last.sess.oneTick]
               ELSE NoSession.again,
     recovers |-> /\ op = "updateData" /\ last.reported
                  /\ last.op \in {"construct", "updateData", "render", "init"},
     processed |-> << >>]

\* The fields of the instance and the DOM after the steps of `op` that led
\* to w, and how the step ended.
Becomes(w, op, escaped, reported, sess) ==
    /\ last' = Outcome(op, escaped /\ w.threw, reported /\ w.threw, w, sess)
    /\ thisContainer' = w.thisContainer
    /\ templateHtml' = w.templateHtml
    /\ container' = w.container
    /\ nodes' = w.nodes
    /\ rafQueue' = w.queue
    /\ existingNodes' = w.existingNodes
    /\ compiledTemplate' = w.compiledTemplate

\* A call of render(data) as the render session `sess`, from the state w.
Renders(w, op, sess) == Becomes(RenderCall(w, sess), op, FALSE, TRUE, sess)

\* render(data) called by `op`, the API call number id.
Rendering(w, op, id, data) == Renders(w, op, NewSession(w, op, id, data))

\* An entry of the history of registry calls, and the result of no emit.
Call(op, name, callback) == [op |-> op, name |-> name, callback |-> callback]
DestroyCall == Call("destroy", "", "")
NoEmit == [name |-> "", data |-> "", invoked |-> << >>, escaped |-> FALSE]

NoInput == [surface |-> "FastLoop", template |-> << >>, item |-> NullItem, i |-> 0]
NoOutput == [done |-> FALSE, threw |-> FALSE, html |-> << >>]

Init ==
    /\ settings \in UNION { Configurations(s) : s \in Surfaces }
    /\ thisContainer = "unset"
    /\ container = << >>
    /\ nodes = << >>
    /\ templateHtml = << >>
    /\ compiledTemplate = NULL
    /\ existingNodes = << >>
    /\ eventListeners = << >>
    /\ rafQueue = << >>
    /\ instance = "none"
    /\ calls = 0
    /\ last = Outcome("none", FALSE, FALSE, World, NoSession)
    /\ sIn = NoInput
    /\ sOut = NoOutput
    /\ history = << >>
    /\ emitted = NoEmit
    /\ frame = FALSE

\* new FastLoop(options) (lines 10-64) and $(el).loopHtml(options)
\* (part_000 lines 7-149).  The class throws on a container that is neither a
\* string nor an element, on non-array data under validation and on a
\* template that is neither an element nor a string; the plugin reports the
\* last two and returns.  A selector that matches nothing leaves
\* this.container null; the plugin's this.each() on an empty selection runs
\* nothing.
Construct ==
    /\ instance = "none"
    /\ LET fl == settings.surface = "FastLoop"
           noElement == ~fl /\ settings.container = "unresolved"
           badContainer == fl /\ settings.container = "other"
           badData == settings.validateData /\ ~IsArray(settings.data)
           badTemplate == settings.template.kind = "other"
           failed == noElement \/ badContainer \/ badData \/ badTemplate
       IN IF failed
          THEN /\ instance' = "failed"
               /\ last' = Outcome("construct", fl, ~fl /\ ~noElement, World, NoSession)
               /\ UNCHANGED <<thisContainer, container, nodes, templateHtml,
                              compiledTemplate, existingNodes, rafQueue>>
          ELSE /\ instance' = "live"
               /\ Rendering(
                      [World EXCEPT
                          !.thisContainer =
                              IF fl /\ settings.container = "unresolved"
                              THEN "null" ELSE "element",
                          !.templateHtml = settings.template.html],
                      "construct", 0, settings.data)
    /\ UNCHANGED <<settings, eventListeners, calls, sIn, sOut, history, emitted, frame>>

\* Beyond the MaxCalls calls of the API, MaxLater calls of updateData and
\* render are explored on a destroyed instance that has no template, where
\* render returns at line 72; updateData is then handed the README's data.
Later ==
    /\ instance = "destroyed" /\ Empty(templateHtml)
    /\ last.later < MaxLater

LaterData == {ArrayOf(<<ItemA, ItemB>>)}

\* instance.updateData(newData) (lines 151-154) and the plugin's listener of
\* the configured event (part_000 lines 129-132): the data is stored and
\* rendered, unchecked.  render() catches what its first batch throws.
UpdateData(newData) ==
    /\ instance = "live" \/ (instance = "destroyed" /\ settings.surface = "FastLoop")
    /\ calls < MaxCalls \/ (Later /\ newData \in LaterData)
    /\ calls' = calls + 1
    /\ settings' = [settings EXCEPT !.data = newData]
    /\ Rendering([World EXCEPT !.queue = Interfered(@)], "updateData",
                 calls + 1, newData)
    /\ UNCHANGED <<eventListeners, instance, sIn, sOut, history, emitted, frame>>

\* instance.render(instance.settings.data): the public render() of the class
\* on the stored data (lines 71-145).
Render ==
    /\ instance \in {"live", "destroyed"}
    /\ settings.surface = "FastLoop"
    /\ calls < MaxCalls \/ Later
    /\ calls' = calls + 1
    /\ Rendering([World EXCEPT !.queue = Interfered(@)], "render",
                 calls + 1, settings.data)
    /\ UNCHANGED <<settings, eventListeners, instance, sIn, sOut, history, emitted, frame>>

\* instance.init() called on an instance that exists (lines 47-64; the
\* constructor's own call of it is part of Construct): data that fails the
\* validation, or a template that is neither an element nor a string, throws
\* to the caller with nothing changed; otherwise templateHtml is read again
\* from settings.template and settings.data is rendered.  compiledTemplate
\* and the registry are left as they are, a destroyed instance included.
InitCall ==
    /\ instance \in {"live", "destroyed"}
    /\ settings.surface = "FastLoop"
    /\ calls < MaxCalls
    /\ calls' = calls + 1
    /\ IF \/ settings.validateData /\ ~IsArray(settings.data)
          \/ settings.template.kind = "other"
       THEN /\ last' = Outcome("init", TRUE, FALSE, World, NoSession)
            /\ rafQueue' = Interfered(rafQueue)
            /\ UNCHANGED <<thisContainer, container, nodes, templateHtml,
                           compiledTemplate, existingNodes>>
       ELSE Rendering([World EXCEPT !.queue = Interfered(@),
                                    !.templateHtml = settings.template.html],
                      "init", calls + 1, settings.data)
    /\ UNCHANGED <<settings, eventListeners, instance, sIn, sOut, history, emitted, frame>>

\* A requestAnimationFrame callback runs: () => processBatch(endIndex) of the
\* oldest scheduled render (line 128).  Nothing catches what it throws.
Tick ==
    /\ rafQueue # << >>
    /\ Becomes(ProcessBatch([World EXCEPT !.queue = Tail(@),
                                          !.frag = Head(rafQueue).fragment],
                             Head(rafQueue), Head(rafQueue).start),
               "tick", TRUE, FALSE, Head(rafQueue))
    /\ UNCHANGED <<settings, eventListeners, instance, calls, sIn, sOut,
                   history, emitted>>
    /\ frame' = ~frame

\* destroy() that empties the container and the registry only: the template
\* and the caches are kept.
DestroyKeepsTemplate ==
    /\ instance = "live" \/ (instance = "destroyed" /\ settings.surface = "FastLoop")
    /\ calls < MaxCalls
    /\ calls' = calls + 1
    /\ instance' = "destroyed"
    /\ eventListeners' = << >>
    /\ rafQueue' = Interfered(rafQueue)
    /\ last' = Outcome("destroy", thisContainer = "null", FALSE, World, NoSession)
    /\ container' = << >>
    /\ history' = Append(history, DestroyCall)
    /\ UNCHANGED <<settings, thisContainer, nodes, templateHtml, compiledTemplate,
                   existingNodes, sIn, sOut, emitted, frame>>

\* instance.destroy() (lines 194-200): a null this.container throws at line
\* 196 and the fields are kept.  The plugin's destroy (part_000 lines
\* 140-147) empties the container and drops the handle and the listener; the
\* template stays.
Destroy ==
    /\ instance = "live" \/ (instance = "destroyed" /\ settings.surface = "FastLoop")
    /\ calls < MaxCalls
    /\ calls' = calls + 1
    /\ instance' = "destroyed"
    /\ eventListeners' = << >>
    /\ rafQueue' = Interfered(rafQueue)
    /\ IF thisContainer = "null"
       THEN /\ last' = Outcome("destroy", TRUE, FALSE, World, NoSession)
            /\ UNCHANGED <<container, templateHtml, compiledTemplate, existingNodes>>
       ELSE /\ last' = Outcome("destroy", FALSE, FALSE, World, NoSession)
            /\ container' = << >>
            /\ IF settings.surface = "FastLoop"
               THEN /\ templateHtml' = NULL
                    /\ compiledTemplate' = NULL
                    /\ existingNodes' = << >>
               ELSE UNCHANGED <<templateHtml, compiledTemplate, existingNodes>>
    /\ history' = Append(history, DestroyCall)
    /\ UNCHANGED <<settings, thisContainer, nodes, sIn, sOut, emitted, frame>>

Next ==
    \/ Construct
    \/ \E newData \in DataValues : UpdateData(newData)
    \/ Render
    \/ InitCall
    \/ Tick
    \/ Destroy

Spec == Init /\ [][Next]_vars

\* The host grants an animation frame: the step of Tick, told by the parity
\* of frames alone.  It is enabled exactly when a callback is scheduled.
FrameGranted == rafQueue # << >> /\ frame' = ~frame

\* The host grants every requested animation frame: a scheduled callback
\* runs eventually.
LiveSpec == Spec /\ WF_frame(FrameGranted)

----------------------------------------------------------------------------
(* The default substituter on its own: one template, one item, one position. *)

SubstTemplates ==
    { TplItem, TplRow, TplText, TplCard,
      <<"{{index}}">>,
      <<"{{name}}", "-", "{{name}}">>,
      <<"<li>", "{{name}}", "{{index}}", "</li>">> }

InitSubst ==
    /\ settings = Options("FastLoop", "element",
                          [template |-> StringTemplate(<< >>), renderCallback |-> "none"],
                          TRUE, DefaultBatchSize, TRUE, ArrayOf(<< >>))
    /\ thisContainer = "unset"
    /\ container = << >>
    /\ nodes = << >>
    /\ templateHtml = << >>
    /\ compiledTemplate = NULL
    /\ existingNodes = << >>
    /\ eventListeners = << >>
    /\ rafQueue = << >>
    /\ instance = "none"
    /\ calls = 0
    /\ last = Outcome("none", FALSE, FALSE, World, NoSession)
    /\ sIn \in [surface : Surfaces, template : SubstTemplates,
                item : SubstItems, i : 0..MaxIndex]
    /\ sOut = NoOutput
    /\ history = << >>
    /\ emitted = NoEmit
    /\ frame = FALSE

\* html = compiledTemplate.replace(/{{(\w+)}}/g, ...) for the item at
\* position i (lines 105-108; part_000 lines 83-86).
Substitute ==
    /\ ~sOut.done
    /\ sOut' = [done |-> TRUE,
                threw |-> Replace(sIn.surface, sIn.template, sIn.item, sIn.i).threw,
                html |-> Replace(sIn.surface, sIn.template, sIn.item, sIn.i).html]
    /\ UNCHANGED <<renderVars, sIn>>

NextSubst == Substitute

SpecSubst == InitSubst /\ [][NextSubst]_vars

----------------------------------------------------------------------------
(* The event registry of the class: this.eventListeners, a Map from event   *)
(* names to Sets of callbacks.  A Map and a Set keep insertion order: the   *)
(* Map is a sequence of entries [name, set], the Set a sequence without     *)
(* repetition.                                                              *)

EventNames == {"change", "done"}

\* The callbacks handed to on(): two that return and one that throws.
Callbacks == {"h1", "h2", "boom"}

Throws(callback) == callback = "boom"

Payloads == {"payload"}

\* this.eventListeners.has(eventName)
MapHas(map, eventName) == \E k \in 1..Len(map) : map[k].name = eventName

\* this.eventListeners.get(eventName)
MapGet(map, eventName) ==
    map[CHOOSE k \in 1..Len(map) : map[k].name = eventName].set

\* set.add(callback): a callback the Set holds keeps its place.
SetAdd(set, callback) ==
    IF \E k \in 1..Len(set) : set[k] = callback THEN set ELSE Append(set, callback)

\* on() whose Set takes the callback again when it holds it already.
OnAppends(map, eventName, callback) ==
    LET m == IF MapHas(map, eventName) THEN map
             ELSE Append(map, [name |-> eventName, set |-> << >>])
    IN [k \in 1..Len(m) |->
           IF m[k].name = eventName
           THEN [m[k] EXCEPT !.set = Append(@, callback)] ELSE m[k]]

\* The registry after on(eventName, callback) (lines 161-166).
On(map, eventName, callback) ==
    LET m == IF MapHas(map, eventName) THEN map
             ELSE Append(map, [name |-> eventName, set |-> << >>])
    IN [k \in 1..Len(m) |->
           IF m[k].name = eventName
           THEN [m[k] EXCEPT !.set = SetAdd(@, callback)] ELSE m[k]]

\* The registry after off(eventName, callback) (lines 173-177).
Off(map, eventName, callback) ==
    [k \in 1..Len(map) |->
        IF map[k].name = eventName
        THEN [map[k] EXCEPT !.set = Without(@, callback)] ELSE map[k]]

RECURSIVE ForEach(_)
\* set.forEach(callback => callback(data)): the callbacks called, in order,
\* up to the first that throws.
ForEach(set) ==
    IF set = << >> THEN [invoked |-> << >>, threw |-> FALSE]
    ELSE IF Throws(Head(set)) THEN [invoked |-> <<Head(set)>>, threw |-> TRUE]
    ELSE [invoked |-> <<Head(set)>> \o ForEach(Tail(set)).invoked,
          threw |-> ForEach(Tail(set)).threw]

\* What emit(eventName, data) calls (lines 184-188).
Emit(map, eventName) ==
    IF MapHas(map, eventName) THEN ForEach(MapGet(map, eventName))
    ELSE [invoked |-> << >>, threw |-> FALSE]

\* The class instance exists: construction returned it.
HasInstance == instance \in {"live", "destroyed"} /\ settings.surface = "FastLoop"

\* instance.on(eventName, callback)
CallOn(eventName, callback) ==
    /\ HasInstance /\ Len(history) < MaxEvents
    /\ eventListeners' = On(eventListeners, eventName, callback)
    /\ history' = Append(history, Call("on", eventName, callback))
    /\ UNCHANGED <<settings, thisContainer, container, nodes, templateHtml,
                   compiledTemplate, existingNodes, rafQueue, instance, calls,
                   last, sIn, sOut, emitted, frame>>

\* instance.off(eventName, callback)
CallOff(eventName, callback) ==
    /\ HasInstance /\ Len(history) < MaxEvents
    /\ eventListeners' = Off(eventListeners, eventName, callback)
    /\ history' = Append(history, Call("off", eventName, callback))
    /\ UNCHANGED <<settings, thisContainer, container, nodes, templateHtml,
                   compiledTemplate, existingNodes, rafQueue, instance, calls,
                   last, sIn, sOut, emitted, frame>>

\* instance.emit(eventName, data)
CallEmit(eventName, data) ==
    /\ HasInstance /\ Len(history) < MaxEvents
    /\ emitted' = [name |-> eventName, data |-> data,
                   invoked |-> Emit(eventListeners, eventName).invoked,
                   escaped |-> Emit(eventListeners, eventName).threw]
    /\ history' = Append(history, Call("emit", eventName, ""))
    /\ UNCHANGED <<settings, thisContainer, container, nodes, templateHtml,
                   compiledTemplate, existingNodes, eventListeners, rafQueue,
                   instance, calls, last, sIn, sOut, frame>>

\* new FastLoop({container: element, template: '<div>{{name}}</div>'}), then
\* calls of on, off, emit and destroy.
InitEvents ==
    /\ settings = Options("FastLoop", "element",
                          [template |-> StringTemplate(TplItem), renderCallback |-> "none"],
                          TRUE, DefaultBatchSize, TRUE, ArrayOf(<< >>))
    /\ thisContainer = "unset"
    /\ container = << >>
    /\ nodes = << >>
    /\ templateHtml = << >>
    /\ compiledTemplate = NULL
    /\ existingNodes = << >>
    /\ eventListeners = << >>
    /\ rafQueue = << >>
    /\ instance = "none"
    /\ calls = 0
    /\ last = Outcome("none", FALSE, FALSE, World, NoSession)
    /\ sIn = NoInput
    /\ sOut = NoOutput
    /\ history = << >>
    /\ emitted = NoEmit
    /\ frame = FALSE

NextEvents ==
    \/ Construct
    \/ \E eventName \in EventNames, callback \in Callbacks : CallOn(eventName, callback)
    \/ \E eventName \in EventNames, callback \in Callbacks : CallOff(eventName, callback)
    \/ \E eventName \in EventNames, data \in Payloads : CallEmit(eventName, data)
    \/ Destroy

SpecEvents == InitEvents /\ [][NextEvents]_vars

----------------------------------------------------------------------------
(* Properties. *)

Range(seq) == { seq[k] : k \in 1..Len(seq) }

\* The render that ran in the last step.
Ran == last.sess

\* The last step swapped a render's fragment into the container.
Committed == last.committed

\* C1: a render that runs all its batches with no other API call in between
\* ends in the container (the same nodes in the same order, with the same
\* content) that the same render call would have ended in from the same
\* starting state with all the data in one batch, whatever batchSize >= 1,
\* template and reuseNodes are.
C1_BatchSizeIrrelevant ==
    (Committed /\ Ran.solo) =>
        /\ Ran.oneTick.ok
        /\ container = Ran.oneTick.children
        /\ Markup = Ran.oneTick.markup

\* C1 witness: a render of three items in batches of two then one, on a
\* container whose children it reuses, has committed.
C1_Witness ==
    /\ last.op = "tick" /\ Committed /\ Ran.solo
    /\ Ran.start > 0 /\ Ran.batchSize < Len(Ran.data.items)
    /\ settings.reuseNodes /\ Len(Ran.origin) > 0
    /\ Ran.batchSize = 2 /\ Len(container) = 3

\* C2: when the batch a render call processes synchronously raises an
\* error (render catches and reports it), the container's children and their
\* content after the call are what they were before it, with reuseNodes true
\* as well as false.
C2_NoPartialSwapOnError ==
    (last.op \in {"construct", "updateData", "render", "init"} /\ last.reported) =>
        /\ container = last.before.children
        /\ Markup = last.before.markup

\* C3: with reuseNodes true, a re-render that no other call overlaps, with
\* fewer items than the container had children when it was called, leaves as
\* the container's children exactly the first data.length of those children,
\* the same nodes in the same positions: the trailing ones are removed.
C3_ShorterDataKeepsLeadingNodes ==
    (/\ Committed /\ Ran.solo /\ settings.reuseNodes
     /\ IsArray(Ran.data) /\ Len(Ran.data.items) < Len(Ran.origin)) =>
        /\ container = SubSeq(Ran.origin, 1, Len(Ran.data.items))
        /\ Range(Ran.origin) \ Range(container) =
               { Ran.origin[k] : k \in (Len(Ran.data.items) + 1)..Len(Ran.origin) }

\* C3 witness: a container of two children was re-rendered with one item and
\* holds its former first child, with the new content.
C3_Witness ==
    /\ Committed /\ Ran.solo /\ settings.reuseNodes
    /\ Len(Ran.origin) = 2 /\ Len(Ran.data.items) = 1
    /\ container = <<Ran.origin[1]>>
    /\ Markup # SubSeq(last.before.markup, 1, 1)

\* C4: with reuseNodes false, when a render commits, no node that was a child
\* of the container when render was called, or just before the commit, is a
\* child afterwards: every child was created by that render.
C4_NoReuseReplacesEveryNode ==
    (Committed /\ ~settings.reuseNodes) =>
        \A k \in 1..Len(container) :
            /\ container[k] \notin Range(Ran.origin)
            /\ container[k] \notin Range(last.before.children)
            /\ nodes[container[k]].by = Ran.id

\* C4 witness: with reuseNodes false a render has replaced two children by
\* two others.
C4_Witness ==
    /\ Committed /\ ~settings.reuseNodes
    /\ Len(Ran.origin) = 2 /\ Len(container) = 2
    /\ last.before.children = Ran.origin

\* C5: updateData(D) called with no render scheduled and at once again with
\* the same D: once every scheduled batch has run, with no other call, the
\* container's markup is the one a single updateData(D) ends in.
C5_RepeatedUpdateIdempotent ==
    (/\ Ran.again.is /\ Ran.again.single.ok
     /\ Committed /\ rafQueue = << >> /\ Ran.id = calls) =>
        Markup = Ran.again.single.markup

\* C6: with validateData true, a valid container and a valid template, data
\* that is not an array, handed over at construction or by updateData (the
\* plugin's data-change event), is not rendered: the container is left as it
\* was and no error escapes the call.
C6_InvalidDataSkipped ==
    (/\ settings.validateData /\ ~IsArray(settings.data)
     /\ settings.container = "element" /\ settings.template.kind = "string"
     /\ last.op \in {"construct", "updateData"}) =>
        /\ ~last.escaped /\ ~Committed
        /\ container = last.before.children
        /\ Markup = last.before.markup

\* The text content of markup: its tokens that are no tags.
TextOf(s) == SelectSeq(s, LAMBDA t : t \notin OpenTags \cup CloseTags)

\* The trimmed markup of the item at the 0-based position i of the render
\* that ran, and whether it has an element at its root.
MarkupOfItem(i) == Trim(ItemHtml(World, Ran.data.items[i + 1], i).html)

HasElementRoot(i) ==
    /\ ~ItemHtml(World, Ran.data.items[i + 1], i).threw
    /\ ~FirstElementChild(MarkupOfItem(i)).none

\* The node carries the markup: a recycled node has it as its content, a new
\* node is its first element; either way the node's text is the markup's.
Carries(id, html) ==
    /\ TextOf(nodes[id].inner) = TextOf(html)
    /\ IF id \in Range(Ran.origin)
       THEN nodes[id].inner = html
       ELSE /\ nodes[id].tag = FirstElementChild(html).tag
            /\ nodes[id].inner = FirstElementChild(html).inner

\* C7: when a render of N items whose markup each has an element root has
\* committed (with reuseNodes, a render no other call overlaps), the
\* container has exactly N children and child i carries the markup
\* substituted from data[i], in data order.
C7_OneChildPerItemInOrder ==
    (/\ Committed /\ IsArray(Ran.data)
     /\ (Ran.solo \/ ~settings.reuseNodes)
     /\ \A i \in 0..(Len(Ran.data.items) - 1) : HasElementRoot(i)) =>
        /\ Len(container) = Len(Ran.data.items)
        /\ \A i \in 0..(Len(Ran.data.items) - 1) :
               Carries(container[i + 1], MarkupOfItem(i))

\* C7 witness: the README's example in two ticks: the items a and b are
\* rendered as two children whose text holds "a" and "b", in that order.
C7_Witness ==
    /\ last.op = "tick" /\ Committed
    /\ Ran.data = ArrayOf(<<ItemA, ItemB>>)
    /\ settings.renderCallback = "none"
    /\ Len(container) = 2
    /\ TextOf(nodes[container[1]].inner) = <<"1", ":", "a">>
    /\ TextOf(nodes[container[2]].inner) = <<"2", ":", "b">>

\* C8: where the template has no {{index}}, the default substituter's result
\* is the template with every placeholder {{key}} replaced by the string form
\* of item[key] when that is neither null nor undefined, and by the empty
\* string otherwise.
C8_PlaceholderIsValueOrEmpty ==
    (sOut.done /\ ~sIn.item.isNull /\ "{{index}}" \notin Range(sIn.template)) =>
        /\ ~sOut.threw
        /\ sOut.html =
               Concat([k \in 1..Len(sIn.template) |->
                   IF sIn.template[k] \in Placeholders
                   THEN (IF Get(sIn.item, KeyOf(sIn.template[k])).t
                                \in {"null", "undefined"}
                         THEN << >>
                         ELSE Text(Get(sIn.item, KeyOf(sIn.template[k]))))
                   ELSE <<sIn.template[k]>>])

\* The template with i + 1 written where it has {{index}}.
WithPosition(tpl, i) ==
    [k \in 1..Len(tpl) |-> IF tpl[k] = "{{index}}" THEN ToString(i + 1) ELSE tpl[k]]

\* C9: substituting at the 0-based position i gives what the template with
\* i + 1 written in place of every {{index}} gives, whatever the item is,
\* also when the item has a key index of its own or is null.
C9_IndexIsPositionPlusOne ==
    sOut.done =>
        /\ sOut.threw =
               Replace(sIn.surface, WithPosition(sIn.template, sIn.i), sIn.item, sIn.i).threw
        /\ sOut.html =
               Replace(sIn.surface, WithPosition(sIn.template, sIn.i), sIn.item, sIn.i).html
        /\ (sIn.template = <<"{{index}}">> =>
               ~sOut.threw /\ sOut.html = <<ToString(sIn.i + 1)>>)

\* C9 witness: {{index}} was substituted at position 2 for an item with a
\* key index of its own.
C9_Witness ==
    /\ sOut.done /\ ~sOut.threw
    /\ sIn.i = 2 /\ sIn.item.index = Num("7")
    /\ sIn.template = <<"<li>", "{{name}}", "{{index}}", "</li>">>
    /\ sOut.html = <<"<li>", "a", "3", "</li>">>

\* The last step was a call of updateData or render that did nothing: no
\* error, no commit, the children as before and no batch of it scheduled.
CallDidNothing ==
    /\ ~last.escaped /\ ~last.reported /\ ~Committed
    /\ container = last.before.children
    /\ \A k \in 1..Len(rafQueue) : rafQueue[k].id # Ran.id

\* C10 (as amended): on the class with a mount element, once destroy() has
\* been called with no render in flight, the container is empty and stays
\* empty through every later updateData and render call and no batch is
\* scheduled; in flight or not, each such call does nothing and lets no
\* error out.  init() is not called again after the destroy.
C10_DestroyedCallsDoNothing ==
    (/\ instance = "destroyed" /\ settings.surface = "FastLoop"
     /\ thisContainer = "element" /\ ~last.reinit) =>
        /\ last.op \in {"updateData", "render"} => CallDidNothing
        /\ last.op = "destroy" => container = << >> /\ ~last.escaped
        /\ ~last.inflight => container = << >> /\ rafQueue = << >>

\* C10 witness: after a render and a destroy() with no render in flight,
\* updateData was called with two items and then render, and the container
\* is empty.
C10_Witness ==
    /\ instance = "destroyed" /\ settings.surface = "FastLoop"
    /\ thisContainer = "element" /\ ~last.reinit /\ ~last.inflight
    /\ last.op = "render" /\ last.later = 2
    /\ IsArray(settings.data) /\ Len(settings.data.items) = 2
    /\ nodes # << >> /\ container = << >>

\* C10 (as claimed): once destroy() of the class has been called, the
\* container is empty after the destroy and after every later updateData or
\* render call, and none of these calls lets an error escape; init() is not
\* called again after the destroy.
C10_DestroyedStaysEmpty ==
    (/\ instance = "destroyed" /\ settings.surface = "FastLoop"
     /\ thisContainer = "element" /\ ~last.reinit
     /\ last.op \in {"destroy", "updateData", "render"}) =>
        /\ container = << >>
        /\ ~last.escaped

\* C11: construction with a container that is neither an element nor a
\* selector that resolves to one, or with a template that is neither a string
\* nor an element, fails: there is no instance afterwards and nothing was
\* rendered or attempted on the container.
C11_InvalidConstructionFails ==
    (/\ instance # "none"
     /\ \/ settings.container \in {"unresolved", "other"}
        \/ settings.template.kind = "other") =>
        /\ instance = "failed"
        /\ nodes = << >> /\ container = << >>

\* The data of the render that ran is an array whose items' markup each
\* computes without an error and has an element root.
RendersCleanly ==
    /\ IsArray(Ran.data)
    /\ \A i \in 0..(Len(Ran.data.items) - 1) : HasElementRoot(i)

\* C12: on an instance with a mount element, an updateData that follows a
\* render call which a synchronous error aborted, with data that raises no
\* error, renders that data: the call lets no error out and reports none,
\* and the render (in the call when one batch holds the data, else at its
\* last tick) commits one child per item, in data order.
C12_UsableAfterRenderFailure ==
    /\ (/\ last.op = "updateData" /\ thisContainer = "element"
        /\ Ran.recovers /\ Ran.solo /\ RendersCleanly) =>
           /\ ~last.escaped /\ ~last.reported
           /\ Len(Ran.data.items) <= Ran.batchSize => Committed
    /\ (/\ Committed /\ thisContainer = "element"
        /\ Ran.recovers /\ Ran.solo /\ RendersCleanly) =>
           /\ Len(container) = Len(Ran.data.items)
           /\ \A i \in 0..(Len(Ran.data.items) - 1) :
                  Carries(container[i + 1], MarkupOfItem(i))

\* C12 witness: a render was aborted after it had taken the first of two
\* children out of the container; the updateData that followed has rendered
\* its two items.
C12_Witness ==
    /\ last.op = "updateData" /\ Ran.recovers /\ Committed
    /\ settings.reuseNodes /\ Len(Ran.origin) = 1
    /\ Len(container) = 2

\* The item at the 0-based position i of the render that ran has markup
\* without an element, at a position for which there is no node to reuse.
Slotless(i) ==
    /\ ~ItemHtml(World, Ran.data.items[i + 1], i).threw
    /\ FirstElementChild(MarkupOfItem(i)).none
    /\ ~(settings.reuseNodes /\ i + 1 <= Len(Ran.origin))

\* C13: a render call (one batch, a mount element, every item's markup
\* computed without an error) with an item whose markup has no element, at a
\* position without a node to reuse, skips that slot: no error is reported
\* and the call commits the nodes of the other items.
C13_RootlessSlotSkipped ==
    (/\ last.op \in {"construct", "updateData", "render", "init"}
     /\ thisContainer = "element" /\ ~Empty(templateHtml)
     /\ IsArray(Ran.data) /\ Len(Ran.data.items) <= Ran.batchSize
     /\ \A i \in 0..(Len(Ran.data.items) - 1) :
            ~ItemHtml(World, Ran.data.items[i + 1], i).threw
     /\ \E i \in 0..(Len(Ran.data.items) - 1) : Slotless(i)) =>
        /\ ~last.reported /\ ~last.escaped
        /\ Committed
        /\ Len(container) =
               Cardinality({ i \in 0..(Len(Ran.data.items) - 1) : ~Slotless(i) })

RECURSIVE Registered(_, _)
\* The callbacks registered under eventName after the calls h, in the order
\* of their registration: each on() that was not followed by an off() of the
\* same name and callback or by destroy(); the first of repeated on() counts.
Registered(h, eventName) ==
    IF h = << >> THEN << >>
    ELSE LET before == Registered(SubSeq(h, 1, Len(h) - 1), eventName)
             c == h[Len(h)]
         IN IF c.op = "destroy" THEN << >>
            ELSE IF c.name # eventName \/ c.op = "emit" THEN before
            ELSE IF c.op = "off" THEN Without(before, c.callback)
            ELSE IF c.callback \in Range(before) THEN before
            ELSE Append(before, c.callback)

\* C14: emit(name, payload) calls the callbacks registered under that name by
\* on() and not removed since by off() or destroy(), in the order of their
\* registration and each at most once, and no other callback; it calls all
\* of them unless one throws, which ends the emit with that callback.
C14_EmitCallsRegisteredInOrder ==
    (history # << >> /\ history[Len(history)].op = "emit") =>
        LET expected == Registered(history, history[Len(history)].name)
            n == Len(emitted.invoked)
        IN /\ emitted.name = history[Len(history)].name
           /\ n <= Len(expected)
           /\ emitted.invoked = SubSeq(expected, 1, n)
           /\ \A j, k \in 1..n : emitted.invoked[j] = emitted.invoked[k] => j = k
           /\ (\A k \in 1..Len(expected) : ~Throws(expected[k])) =>
                  emitted.invoked = expected /\ ~emitted.escaped
           /\ n < Len(expected) => Throws(emitted.invoked[n]) /\ emitted.escaped

\* C14 witness: after on(h1), on(h2) under one name, an emit of that name
\* called h1 then h2.
C14_Witness ==
    /\ Len(history) = 3 /\ history[3].op = "emit"
    /\ history[1] = Call("on", "change", "h1")
    /\ history[2] = Call("on", "change", "h2")
    /\ emitted.invoked = <<"h1", "h2">>

\* A render call was just made as the API call number id, on a live instance
\* with a mount element and a template, with data that renders cleanly.
Started(id) ==
    /\ last.op \in {"construct", "updateData", "render", "init"} /\ Ran.id = id
    /\ instance = "live" /\ thisContainer = "element"
    /\ ~Empty(templateHtml) /\ RendersCleanly

\* C15: when the host grants every requested animation frame, a render
\* started on an instance with a mount element and a template, with data
\* whose items raise no error, eventually commits its fragment, unless the
\* instance is destroyed.
C15_ScheduledRenderCommits ==
    \A id \in 0..MaxCalls :
        Started(id) ~> ((Committed /\ Ran.id = id) \/ instance = "destroyed")

\* C15 witness: a render of three items in batches of one, without reuse,
\* has committed at its third tick.
C15_Witness ==
    /\ last.op = "tick" /\ Committed /\ instance = "live"
    /\ Ran.batchSize = 1 /\ Ran.start = 2 /\ ~settings.reuseNodes
    /\ Len(container) = 3

\* C16: a render that overlaps another call (it was called while a render
\* was scheduled, or a call was made while it was scheduled) ends as it would
\* have ended alone from the container it was called on: the same markup,
\* and the nodes of its snapshot reused at the same positions.
C16_OverlappingRendersIndependent ==
    (Committed /\ ~Ran.solo /\ Ran.oneTick.ok /\ instance = "live") =>
        /\ Len(container) = Len(Ran.oneTick.children)
        /\ Markup = Ran.oneTick.markup
        /\ \A k \in 1..Len(container) :
               /\ Ran.oneTick.children[k] \in Range(Ran.origin) =>
                      container[k] = Ran.oneTick.children[k]
               /\ container[k] \in Range(Ran.origin) =>
                      container[k] = Ran.oneTick.children[k]

\* C17: the default substitution of the class and of the plugin give the
\* same markup (or both fail) for every template, item and position.
C17_SurfacesSubstituteAlike ==
    sOut.done =>
        \A s \in Surfaces :
            /\ Replace(s, sIn.template, sIn.item, sIn.i).threw = sOut.threw
            /\ Replace(s, sIn.template, sIn.item, sIn.i).html = sOut.html

\* The positions from a up to b - 1, in ascending order.
Positions(a, b) == [k \in 1..(IF b > a THEN b - a ELSE 0) |-> a + k - 1]

\* The last step ran a batch of a render of an array: the call of render,
\* past its template guard, or an animation-frame callback.
RanBatch ==
    /\ Ran.id >= 0 /\ IsArray(Ran.data)
    /\ \/ last.op = "tick"
       \/ last.op \in {"construct", "updateData", "render", "init"} /\ ~Empty(templateHtml)

\* C18: a step of a render of N items with batchSize b starts at a cursor
\* that is a multiple of b, with the positions below the cursor processed
\* once each in ascending order by the earlier steps; it processes the chunk
\* from the cursor up to min(cursor + b, N) - 1 in ascending order (the start
\* of it when an error ends the step), then commits exactly when the chunk
\* was the last, and otherwise schedules the batch at cursor + b.
C18_ChunksInOrder ==
    RanBatch =>
        LET N == Len(Ran.data.items)
            endIndex == Min(Ran.start + Ran.batchSize, N)
            chunk == Positions(Ran.start, endIndex)
        IN /\ Ran.start % Ran.batchSize = 0
           /\ Ran.start < N \/ Ran.start = 0
           /\ Ran.processed = Positions(0, Ran.start)
           /\ Len(last.log) <= Len(chunk)
           /\ last.log = SubSeq(chunk, 1, Len(last.log))
           /\ (~last.escaped /\ ~last.reported) =>
                  /\ last.log = chunk
                  /\ Committed <=> endIndex = N
                  /\ ~Committed =>
                         \E k \in 1..Len(rafQueue) :
                             /\ rafQueue[k].id = Ran.id
                             /\ rafQueue[k].start = endIndex
                             /\ rafQueue[k].processed = Positions(0, endIndex)

\* C18 witness: the last step of a render of three items in batches of two
\* processed the chunk [2, 3) and committed.
C18_Witness ==
    /\ last.op = "tick" /\ Committed
    /\ Ran.batchSize = 2 /\ Len(Ran.data.items) = 3
    /\ Ran.processed = <<0, 1>> /\ last.log = <<2>>

\* C19: with reuseNodes false, a step of a render that does not commit leaves
\* the container's child list as it was before the step, so that with no
\* other call in between it is the one the render started from; the step
\* that commits replaces the list by nodes that this render created.
C19_NoReuseTouchesContainerAtSwapOnly ==
    (~settings.reuseNodes /\ Ran.id >= 0
         /\ last.op \in {"construct", "updateData", "render", "init", "tick"}) =>
        /\ ~Committed => container = last.before.children
        /\ (~Committed /\ Ran.solo) => container = Ran.origin
        /\ Committed =>
               /\ \A k \in 1..Len(container) : nodes[container[k]].by = Ran.id
               /\ IsArray(Ran.data) => Len(container) = Len(Ran.data.items)

\* C19 witness: with reuseNodes false and a child in the container, the
\* second batch of a render of three items has run and the container still
\* holds that child alone.
C19_Witness ==
    /\ ~settings.reuseNodes /\ last.op = "tick" /\ ~Committed /\ ~last.escaped
    /\ Ran.solo /\ Ran.start = 1 /\ Len(Ran.data.items) = 3
    /\ Len(Ran.origin) = 1 /\ container = Ran.origin
    /\ nodes[container[1]].by # Ran.id

\* C20: a batch of a render that was scheduled before destroy() runs after
\* it without an error, and the batch that ends the data commits: the
\* container then holds one node per item, all of them this render's.  The
\* renders taken are those that a single batch would have completed.
C20_DestroyKeepsRenderRunning ==
    (instance = "destroyed" /\ last.op = "tick" /\ thisContainer = "element"
         /\ Ran.oneTick.ok) =>
        /\ ~last.escaped
        /\ Ran.start + Ran.batchSize >= Len(Ran.data.items) =>
               /\ Committed
               /\ Len(container) = Len(Ran.data.items)
               /\ \A k \in 1..Len(container) :
                      nodes[container[k]].by = Ran.id \/ settings.reuseNodes

\* The trimmed markup of the item at the 0-based position i of the data the
\* instance holds, the data of the most recent request.
MarkupOfLatest(i) == Trim(ItemHtml(World, settings.data.items[i + 1], i).html)

\* The data the instance holds is an array whose items each give markup with
\* an element at its root.
LatestRenders ==
    /\ IsArray(settings.data)
    /\ \A i \in 0..(Len(settings.data.items) - 1) :
           /\ ~ItemHtml(World, settings.data.items[i + 1], i).threw
           /\ ~FirstElementChild(MarkupOfLatest(i)).none

\* C21: on a live instance with a mount element, once no batch remains
\* scheduled the container shows the data of the most recent request, where
\* that data renders: one child per item, child i with the text of the
\* markup substituted from item i.
C21_LastRequestWins ==
    (/\ instance = "live" /\ thisContainer = "element"
     /\ rafQueue = << >> /\ LatestRenders) =>
        /\ Len(container) = Len(settings.data.items)
        /\ \A i \in 0..(Len(settings.data.items) - 1) :
               TextOf(nodes[container[i + 1]].inner) = TextOf(MarkupOfLatest(i))

====
